---- MODULE Spec2Model ----
(***************************************************************************)
(* AgriImpact Insight (src/app.py): the SQLite store (init_db, add_event,  *)
(* get_events, add_attendee, get_attendance_data), the report helpers      *)
(* (Counter, markdown_table, export_csv) and the Streamlit script main().  *)
(*                                                                         *)
(* Text is a sequence of one-character strings, so that formatting and     *)
(* CSV quoting are computed character by character.                        *)
(***************************************************************************)
EXTENDS Integers, Sequences, FiniteSets, TLC

\* Bounds of the model.
MaxEvents == 2
MaxAttendees == 2
MaxOpen == 1
MaxRows == 3

VARIABLES
    dataDir,        \* whether the directory of DB_PATH exists
    cols,           \* column names of the events table, <<>> when the table is absent
    attTable,       \* whether the attendees table exists
    events,         \* rows of the events table, in rowid order
    eventsSeq,      \* sqlite_sequence entry of events (AUTOINCREMENT)
    attendees,      \* rows of the attendees table, in rowid order
    attendeesSeq,   \* sqlite_sequence entry of attendees
    openConns,      \* connections opened by finished operations and never closed
    ret,            \* what the last operation returned or raised
    eventCalls,     \* history: arguments of the add_event calls that returned
    attendeeCalls,  \* history: arguments of the add_attendee calls that returned
    issuedIds,      \* history: the id given to the event of each add_event call that returned
    records         \* input of the report helpers: a list of attendance records

vars == <<dataDir, cols, attTable, events, eventsSeq, attendees, attendeesSeq,
          openConns, ret, eventCalls, attendeeCalls, issuedIds, records>>

----------------------------------------------------------------------------
\* Text

Range(s) == {s[i] : i \in 1..Len(s)}

RECURSIVE Join(_, _)
\* sep.join(parts)
Join(parts, sep) ==
    IF Len(parts) = 0 THEN <<>>
    ELSE IF Len(parts) = 1 THEN parts[1]
    ELSE parts[1] \o sep \o Join(Tail(parts), sep)

Digit(d) == <<"0", "1", "2", "3", "4", "5", "6", "7", "8", "9">>[d + 1]

RECURSIVE IntStr(_)
\* str(n) of a natural number
IntStr(n) == IF n < 10 THEN <<Digit(n)>> ELSE IntStr(n \div 10) \o <<Digit(n % 10)>>

RECURSIVE ZeroPad(_, _)
\* '%0*d': left-pad with zeros to the width
ZeroPad(s, width) == IF Len(s) >= width THEN s ELSE ZeroPad(<<"0">> \o s, width)

\* datetime.date.isoformat(): YYYY-MM-DD
isoformat(d) ==
    ZeroPad(IntStr(d.year), 4) \o <<"-">> \o ZeroPad(IntStr(d.month), 2)
        \o <<"-">> \o ZeroPad(IntStr(d.day), 2)

----------------------------------------------------------------------------
\* Schema (init_db)

ID == <<"i", "d">>
TITLE == <<"t", "i", "t", "l", "e">>
DATE == <<"d", "a", "t", "e">>
EVENT_DATE == <<"e", "v", "e", "n", "t", "_", "d", "a", "t", "e">>
LOCATION == <<"l", "o", "c", "a", "t", "i", "o", "n">>
TOPIC == <<"t", "o", "p", "i", "c">>
EVENT_TITLE == <<"e", "v", "e", "n", "t", "_", "t", "i", "t", "l", "e">>
GENDER == <<"g", "e", "n", "d", "e", "r">>
PROVINCE == <<"p", "r", "o", "v", "i", "n", "c", "e">>

\* The headers of the report tables.
EVENT == <<"E", "v", "e", "n", "t">>
GENDER_HEADER == <<"G", "e", "n", "d", "e", "r">>
PROVINCE_HEADER == <<"P", "r", "o", "v", "i", "n", "c", "e">>
COUNT == <<"C", "o", "u", "n", "t">>

\* The columns CREATE TABLE IF NOT EXISTS events gives a new table.
EventsColumns == <<ID, TITLE, EVENT_DATE, LOCATION, TOPIC>>
\* An events table of a prior version, with the date column named 'date'.
LegacyColumns == <<ID, TITLE, DATE, LOCATION, TOPIC>>
\* An events table of a prior version with no date column at all.
UndatedColumns == <<ID, TITLE, LOCATION, TOPIC>>

----------------------------------------------------------------------------
\* The store operations.  Each takes the state s of the database file and of
\* the process's connections, and gives [s, raised, value]: the state it
\* leaves, whether it raised, and what it returned (or the exception's name).

Store ==
    [dir |-> dataDir, cols |-> cols, attTable |-> attTable, events |-> events,
     eventsSeq |-> eventsSeq, attendees |-> attendees,
     attendeesSeq |-> attendeesSeq, open |-> openConns, rollback |-> <<>>]

\* The rows of the two tables and their sqlite_sequence entries.
Rows(s) ==
    [events |-> s.events, eventsSeq |-> s.eventsSeq,
     attendees |-> s.attendees, attendeesSeq |-> s.attendeesSeq]

\* os.makedirs(os.path.dirname(DB_PATH), exist_ok=True)
MakeDirs(s) == [s EXCEPT !.dir = TRUE]

\* sqlite3.connect(DB_PATH) cannot create the file in a directory that is absent.
CanConnect(s) == s.dir

\* sqlite3.connect(DB_PATH)
Connect(s) == [s EXCEPT !.open = @ + 1]

\* The transaction sqlite3 opens before an INSERT: rollback holds the rows to
\* go back to if the connection is closed before a commit.
Begin(s) == IF s.rollback = <<>> THEN [s EXCEPT !.rollback = <<Rows(s)>>] ELSE s

\* conn.commit()
Commit(s) == [s EXCEPT !.rollback = <<>>]

\* conn.close(): an open transaction is rolled back.
Close(s) ==
    IF s.rollback = <<>> THEN [s EXCEPT !.open = @ - 1]
    ELSE [s EXCEPT !.open = @ - 1, !.rollback = <<>>,
                   !.events = s.rollback[1].events,
                   !.eventsSeq = s.rollback[1].eventsSeq,
                   !.attendees = s.rollback[1].attendees,
                   !.attendeesSeq = s.rollback[1].attendeesSeq]

\* The operation returns value.
Return(s, value) == [s |-> s, raised |-> FALSE, value |-> value]

\* A statement raises: control leaves the operation at once, and none of the
\* operation's later statements (commit, close) runs.
Raise(s, exception) == [s |-> s, raised |-> TRUE, value |-> exception]

HasColumns(c, names) == \A n \in names : n \in Range(c)

Max(a, b) == IF a >= b THEN a ELSE b

RECURSIVE MaxRowid(_)
MaxRowid(rows) == IF rows = <<>> THEN 0 ELSE Max(rows[1].id, MaxRowid(Tail(rows)))

\* NextRowid without the increment.
NextRowidNotIncremented(rows, seq) == Max(seq, MaxRowid(rows))

\* INTEGER PRIMARY KEY AUTOINCREMENT: one more than the largest rowid the table
\* ever held (sqlite_sequence) and than the largest it holds.
NextRowid(rows, seq) == Max(seq, MaxRowid(rows)) + 1

\* The events table dropped and created anew.
CreateEventsTableAnew(s) == [s EXCEPT !.cols = EventsColumns, !.events = <<>>]

\* CREATE TABLE IF NOT EXISTS events: an existing table is left as it is.
CreateEventsTable(s) ==
    IF s.cols = <<>> THEN [s EXCEPT !.cols = EventsColumns, !.events = <<>>] ELSE s

\* CREATE TABLE IF NOT EXISTS attendees
CreateAttendeesTable(s) ==
    IF ~s.attTable THEN [s EXCEPT !.attTable = TRUE, !.attendees = <<>>] ELSE s

\* 'date' in column_names and 'event_date' not in column_names
NeedsRename(column_names) ==
    DATE \in Range(column_names) /\ EVENT_DATE \notin Range(column_names)

\* ALTER TABLE events RENAME COLUMN date TO event_date
RenameColumn(c) == [i \in 1..Len(c) |-> IF c[i] = DATE THEN EVENT_DATE ELSE c[i]]

\* init_db with the rename outside any try: its failure leaves the operation.
init_db_unguarded(s0, renameOk) ==
    LET s3 == CreateAttendeesTable(CreateEventsTable(Connect(MakeDirs(s0))))
        attempt == NeedsRename(s3.cols)
    IN  IF attempt /\ ~renameOk THEN Raise(s3, "OperationalError")
        ELSE IF attempt THEN Return(Close(Commit([s3 EXCEPT !.cols = RenameColumn(@)])), "renamed")
        ELSE Return(Close(Commit(s3)), "no_rename")

\* renameOk: whether the ALTER TABLE statement and the commit after it succeed.
init_db(s0, renameOk) ==
    LET s1 == Connect(MakeDirs(s0))
        s2 == CreateEventsTable(s1)
        s3 == CreateAttendeesTable(s2)
        column_names == s3.cols
        attempt == NeedsRename(column_names)
        \* try: ALTER TABLE ...; conn.commit()   except Exception: pass
        s4 == IF attempt /\ renameOk
              THEN Commit([s3 EXCEPT !.cols = RenameColumn(@)])
              ELSE s3
        outcome == IF ~attempt THEN "no_rename"
                   ELSE IF renameOk THEN "renamed" ELSE "rename_failed"
    IN  Return(Close(Commit(s4)), outcome)

add_event(s0, title, event_date, location, topic) ==
    LET s1 == Connect(s0)
        id == NextRowid(s1.events, s1.eventsSeq)
        row == [id |-> id, title |-> title, event_date |-> event_date,
                location |-> location, topic |-> topic]
    IN  IF ~CanConnect(s0) THEN Raise(s0, "OperationalError")
        ELSE IF ~HasColumns(s1.cols, {TITLE, EVENT_DATE, LOCATION, TOPIC})
        THEN Raise(s1, "OperationalError")
        ELSE LET s2 == [Begin(s1) EXCEPT !.events = Append(@, row), !.eventsSeq = id]
             IN  Return(Close(Commit(s2)), "None")

get_events(s0) ==
    LET s1 == Connect(s0)
    IN  IF ~CanConnect(s0) THEN Raise(s0, "OperationalError")
        ELSE IF ~HasColumns(s1.cols, {ID, TITLE, EVENT_DATE, LOCATION, TOPIC})
        THEN Raise(s1, "OperationalError")
        ELSE Return(Close(s1), s1.events)

\* The FOREIGN KEY clause of attendees is declared, and SQLite enforces it only
\* on a connection that ran PRAGMA foreign_keys = ON, which no connection of
\* the program does: any integer event_id is stored.
add_attendee(s0, event_id, name, gender, province) ==
    LET s1 == Connect(s0)
        id == NextRowid(s1.attendees, s1.attendeesSeq)
        row == [id |-> id, event_id |-> event_id, name |-> name,
                gender |-> gender, province |-> province]
    IN  IF ~CanConnect(s0) THEN Raise(s0, "OperationalError")
        ELSE IF ~s1.attTable
        THEN Raise(s1, "OperationalError")
        ELSE LET s2 == [Begin(s1) EXCEPT !.attendees = Append(@, row),
                                         !.attendeesSeq = id]
             IN  Return(Close(Commit(s2)), "None")

\* dict(row) of the join's row: the four selected columns, in SELECT order.
AttendanceRecord(e, a) ==
    << <<EVENT_TITLE, e.title>>, <<EVENT_DATE, e.event_date>>,
       <<GENDER, a.gender>>, <<PROVINCE, a.province>> >>

RECURSIVE JoinRowsOnAttendeeId(_, _)
\* JoinRows with the attendee's own id in the ON clause.
JoinRowsOnAttendeeId(as, es) ==
    IF as = <<>> THEN <<>>
    ELSE LET a == as[1]
             matches == SelectSeq(es, LAMBDA e : a.id = e.id)
         IN  [i \in 1..Len(matches) |-> AttendanceRecord(matches[i], a)]
                 \o JoinRowsOnAttendeeId(Tail(as), es)

RECURSIVE JoinRows(_, _)
\* FROM attendees AS a JOIN events AS e ON a.event_id = e.id
JoinRows(as, es) ==
    IF as = <<>> THEN <<>>
    ELSE LET a == as[1]
             matches == SelectSeq(es, LAMBDA e : a.event_id = e.id)
         IN  [i \in 1..Len(matches) |-> AttendanceRecord(matches[i], a)]
                 \o JoinRows(Tail(as), es)

get_attendance_data(s0) ==
    LET s1 == Connect(s0)
    IN  IF ~CanConnect(s0) THEN Raise(s0, "OperationalError")
        ELSE IF ~s1.attTable \/ ~HasColumns(s1.cols, {ID, TITLE, EVENT_DATE})
        THEN Raise(s1, "OperationalError")
        ELSE Return(Close(s1), JoinRows(s1.attendees, s1.events))

----------------------------------------------------------------------------
\* The report helpers.  A dict is the sequence of its <<key, value>> items in
\* insertion order.

Keys(d) == [i \in 1..Len(d) |-> d[i][1]]

Values(d) == [i \in 1..Len(d) |-> d[i][2]]

HasKey(d, key) == \E i \in 1..Len(d) : d[i][1] = key

\* d[key]
Get(d, key) == d[CHOOSE i \in 1..Len(d) : d[i][1] = key][2]

\* Put with a new key placed first instead of last.
PutFirst(d, key, value) ==
    IF HasKey(d, key)
    THEN [i \in 1..Len(d) |-> IF d[i][1] = key THEN <<key, value>> ELSE d[i]]
    ELSE <<<<key, value>>>> \o d

\* d[key] = value: a new key goes last, a present key keeps its place.
Put(d, key, value) ==
    IF HasKey(d, key)
    THEN [i \in 1..Len(d) |-> IF d[i][1] = key THEN <<key, value>> ELSE d[i]]
    ELSE Append(d, <<key, value>>)

RECURSIVE CounterUpdate(_, _)
\* Counter.update(iterable): for elem in iterable: self[elem] = self.get(elem, 0) + 1
CounterUpdate(counts, iterable) ==
    IF iterable = <<>> THEN counts
    ELSE LET elem == Head(iterable)
             seen == IF HasKey(counts, elem) THEN Get(counts, elem) ELSE 0
         IN  CounterUpdate(Put(counts, elem, seen + 1), Tail(iterable))

\* Counter(item[key] for item in data)
Counter(items, key) == CounterUpdate(<<>>, [i \in 1..Len(items) |-> Get(items[i], key)])

RECURSIVE TableRows(_)
\* for key, value in counts.items(): lines.append(f"|{key}|{value}|")
TableRows(counts) ==
    IF counts = <<>> THEN <<>>
    ELSE << <<"|">> \o counts[1][1] \o <<"|">> \o IntStr(counts[1][2]) \o <<"|">> >>
             \o TableRows(Tail(counts))

\* markdown_table with every line, the last too, ended by a newline.
markdown_table_newline_ended(counts, header1, header2) ==
    LET lines == << <<"|">> \o header1 \o <<"|">> \o header2 \o <<"|">>,
                    <<"|", "-", "-", "-", "|", "-", "-", "-", "|">> >>
                     \o TableRows(counts)
    IN  Join(lines, <<"\n">>) \o <<"\n">>

markdown_table(counts, header1, header2) ==
    LET lines == << <<"|">> \o header1 \o <<"|">> \o header2 \o <<"|">>,
                    <<"|", "-", "-", "-", "|", "-", "-", "-", "|">> >>
                     \o TableRows(counts)
    IN  Join(lines, <<"\n">>)

\* csv's excel dialect: delimiter ',', quotechar '"', doublequote,
\* lineterminator '\r\n', QUOTE_MINIMAL.
\* NeedsQuote looking for the delimiter alone.
NeedsQuoteDelimiterOnly(field) == \E i \in 1..Len(field) : field[i] = ","

NeedsQuote(field) == \E i \in 1..Len(field) : field[i] \in {",", "\"", "\r", "\n"}

RECURSIVE DoubleQuotes(_)
DoubleQuotes(field) ==
    IF field = <<>> THEN <<>>
    ELSE (IF field[1] = "\"" THEN <<"\"", "\"">> ELSE <<field[1]>>)
             \o DoubleQuotes(Tail(field))

QuoteField(field) ==
    IF NeedsQuote(field) THEN <<"\"">> \o DoubleQuotes(field) \o <<"\"">> ELSE field

\* csv.writer.writerow: a row of one empty field is written as "".
WriteRow(fields) ==
    (IF Len(fields) = 1 /\ fields[1] = <<>> THEN <<"\"", "\"">>
     ELSE Join([i \in 1..Len(fields) |-> QuoteField(fields[i])], <<",">>))
        \o <<"\r", "\n">>

RECURSIVE WriteRows(_, _)
\* DictWriter.writerows: each dict's values in the order of fieldnames.
WriteRows(rows, fieldnames) ==
    IF rows = <<>> THEN <<>>
    ELSE WriteRow([i \in 1..Len(fieldnames) |->
                      IF HasKey(rows[1], fieldnames[i]) THEN Get(rows[1], fieldnames[i])
                      ELSE <<>>])
             \o WriteRows(Tail(rows), fieldnames)

export_csv(data) ==
    IF data = <<>> THEN <<>>
    ELSE LET fieldnames == Keys(data[1])
         IN  WriteRow(fieldnames) \o WriteRows(data, fieldnames)

----------------------------------------------------------------------------
\* A reader of the excel dialect: the rows of a CSV text, each the list of its
\* fields, with quoted fields unquoted.
CsvStep(acc, c) ==
    LET endField == [acc EXCEPT !.fields = Append(@, acc.cur), !.cur = <<>>, !.mode = "start"]
        endRow == [acc EXCEPT !.rows = Append(@, Append(acc.fields, acc.cur)),
                              !.fields = <<>>, !.cur = <<>>, !.mode = "newrow"]
        add == [acc EXCEPT !.cur = Append(@, c)]
    IN  CASE acc.mode = "quoted" ->
                 IF c = "\"" THEN [acc EXCEPT !.mode = "quote"] ELSE add
          [] acc.mode = "cr" /\ c = "\n" -> [acc EXCEPT !.mode = "newrow"]
          [] acc.mode = "quote" /\ c = "\"" -> [add EXCEPT !.mode = "quoted"]
          [] acc.mode \in {"start", "newrow"} /\ c = "\"" -> [acc EXCEPT !.mode = "quoted"]
          [] c = "," -> endField
          [] c = "\r" -> [endRow EXCEPT !.mode = "cr"]
          [] c = "\n" -> endRow
          [] OTHER -> [add EXCEPT !.mode = "field"]

RECURSIVE CsvScan(_, _, _, _)
\* The reader's state after the characters lo..hi of text, read in order
\* (the range is halved, and the state read before the range is entered, to
\* keep the evaluation shallow).
CsvScan(acc, text, lo, hi) ==
    IF acc.mode = "stop" \/ lo > hi THEN acc
    ELSE IF lo = hi THEN CsvStep(acc, text[lo])
    ELSE LET mid == (lo + hi) \div 2
         IN  CsvScan(CsvScan(acc, text, lo, mid), text, mid + 1, hi)

ParseCsv(text) ==
    LET acc == CsvScan([rows |-> <<>>, fields |-> <<>>, cur |-> <<>>, mode |-> "newrow"],
                       text, 1, Len(text))
    IN  IF acc.mode \in {"newrow", "cr"} THEN acc.rows
        ELSE Append(acc.rows, Append(acc.fields, acc.cur))

----------------------------------------------------------------------------
\* Inputs

Male == <<"M", "a", "l", "e">>
Female == <<"F", "e", "m", "a", "l", "e">>

\* The arguments of the add_event calls: the store takes any text, the empty
\* title too.
EventInputs ==
    {[title |-> <<>>, event_date |-> isoformat([year |-> 2024, month |-> 3, day |-> 1]),
      location |-> <<"N">>, topic |-> <<>>],
     [title |-> <<"A">>, event_date |-> isoformat([year |-> 987, month |-> 11, day |-> 20]),
      location |-> <<>>, topic |-> <<"T">>]}

\* The arguments of the add_attendee calls: the ids the events can have, and
\* one that no event has.
EventIds == 1..(MaxEvents + 1)
AttendeeInputs ==
    {[event_id |-> i, name |-> p.name, gender |-> p.gender, province |-> p.province] :
        i \in EventIds,
        p \in {[name |-> <<"K">>, gender |-> Male, province |-> <<"P">>],
               [name |-> <<>>, gender |-> Female, province |-> <<>>]}}

\* What the widgets of main can hold.
Titles == {<<>>, <<"A">>}
Dates == {[year |-> 2024, month |-> 3, day |-> 1], [year |-> 987, month |-> 11, day |-> 20]}
Locations == {<<"N">>}
Topics == {<<>>}
AttendeeNames == {<<>>, <<"K">>}
Genders == {Male, Female}
Provinces == {<<"P">>}

----------------------------------------------------------------------------
\* The store's operations called one at a time.

Install(r, op) ==
    /\ r.s.open <= MaxOpen
    /\ dataDir' = r.s.dir
    /\ cols' = r.s.cols
    /\ attTable' = r.s.attTable
    /\ events' = r.s.events
    /\ eventsSeq' = r.s.eventsSeq
    /\ attendees' = r.s.attendees
    /\ attendeesSeq' = r.s.attendeesSeq
    /\ openConns' = r.s.open
    /\ ret' = [op |-> op, raised |-> r.raised, value |-> r.value]

\* The outcomes of the rename, when the table found calls for one.
RenameOutcomes == IF NeedsRename(cols) THEN BOOLEAN ELSE {TRUE}

InitDb ==
    \E renameOk \in RenameOutcomes :
        \E r \in {init_db(Store, renameOk)} :
            /\ Install(r, "init_db")
            /\ UNCHANGED <<eventCalls, attendeeCalls, issuedIds, records>>

AddEvent ==
    \E e \in EventInputs :
        \E r \in {add_event(Store, e.title, e.event_date, e.location, e.topic)} :
            /\ Len(events) < MaxEvents
            /\ Install(r, "add_event")
            /\ eventCalls' = IF r.raised THEN eventCalls
                             ELSE Append(eventCalls,
                                         <<e.title, e.event_date, e.location, e.topic>>)
            /\ issuedIds' = IF r.raised THEN issuedIds ELSE Append(issuedIds, r.s.eventsSeq)
            /\ UNCHANGED <<attendeeCalls, records>>

GetEvents ==
    \E r \in {get_events(Store)} :
        /\ Install(r, "get_events")
        /\ UNCHANGED <<eventCalls, attendeeCalls, issuedIds, records>>

AddAttendee ==
    \E a \in AttendeeInputs :
        \E r \in {add_attendee(Store, a.event_id, a.name, a.gender, a.province)} :
            /\ Len(attendees) < MaxAttendees
            /\ Install(r, "add_attendee")
            /\ attendeeCalls' = IF r.raised THEN attendeeCalls
                                ELSE Append(attendeeCalls,
                                            <<a.event_id, a.name, a.gender, a.province>>)
            /\ UNCHANGED <<eventCalls, issuedIds, records>>

GetAttendanceData ==
    \E r \in {get_attendance_data(Store)} :
        /\ Install(r, "get_attendance_data")
        /\ UNCHANGED <<eventCalls, attendeeCalls, issuedIds, records>>

\* Before the program's first run: no data directory; or a data directory with
\* no database in it, or with the database of a prior version of the program.
Init ==
    /\ dataDir \in BOOLEAN
    /\ cols \in IF dataDir THEN {<<>>, LegacyColumns, UndatedColumns} ELSE {<<>>}
    /\ attTable = FALSE
    /\ events = <<>>
    /\ eventsSeq = 0
    /\ attendees = <<>>
    /\ attendeesSeq = 0
    /\ openConns = 0
    /\ ret = [op |-> "start", raised |-> FALSE, value |-> "None"]
    /\ eventCalls = <<>>
    /\ attendeeCalls = <<>>
    /\ issuedIds = <<>>
    /\ records = <<>>

Next == InitDb \/ AddEvent \/ GetEvents \/ AddAttendee \/ GetAttendanceData

Spec == Init /\ [][Next]_vars

----------------------------------------------------------------------------
\* The Streamlit script: one run of main() per interaction with the page.

\* Truthy with every text taken as given.
TruthyAlways(text) == TRUE

\* if title: / if attendee_name: / if not events: / if not data:
\* an empty str or list is false.
Truthy(text) == text # <<>>

\* f"{e['title']} ({e['event_date']})"
EventLabel(e) == e.title \o <<" ", "(">> \o e.event_date \o <<")">>

RECURSIVE EventOptions(_, _)
\* {f"{e['title']} ({e['event_date']})": e['id'] for e in events}
EventOptions(options, evs) ==
    IF evs = <<>> THEN options
    ELSE EventOptions(Put(options, EventLabel(evs[1]), evs[1].id), Tail(evs))

\* The form submission that started the run, if any.
NoForm == [form |-> "none"]
EventForms ==
    [form : {"event_form"}, title : Titles, date_value : Dates,
     location : Locations, topic : Topics]
AttendeeForms ==
    [form : {"attendee_form"}, selected_event : 1..MaxEvents,
     attendee_name : AttendeeNames, gender : Genders, province : Provinces]

\* What the aborted script leaves: the exception, and the add_event and
\* add_attendee calls that returned before it, each as <<op, arguments>>.
Abort(r, added) == [s |-> r.s, raised |-> TRUE, value |-> r.value, added |-> added]

\* Tab 3: View Reports.  s: the state the earlier tabs left; tab1, tab2: what
\* they show; added: the add_event and add_attendee calls that returned.
ViewReports(s, tab1, tab2, added) ==
    LET r4 == get_attendance_data(s)
        data == r4.value
        r5 == get_events(r4.s)
        report ==
            [total_events |-> Len(r5.value),
             total_attendees |-> Len(data),
             by_event |-> markdown_table(Counter(data, EVENT_TITLE), EVENT, COUNT),
             by_gender |-> markdown_table(Counter(data, GENDER), GENDER_HEADER, COUNT),
             by_province |-> markdown_table(Counter(data, PROVINCE), PROVINCE_HEADER, COUNT),
             csv_data |-> export_csv(data)]
    IN  IF r4.raised THEN Abort(r4, added)
        ELSE IF ~Truthy(data)
        THEN [s |-> r4.s, raised |-> FALSE, added |-> added,
              value |-> [tab1 |-> tab1, tab2 |-> tab2,
                         tab3 |-> "No attendance data available."]]
        ELSE IF r5.raised THEN Abort(r5, added)
        ELSE [s |-> r5.s, raised |-> FALSE, added |-> added,
              value |-> [tab1 |-> tab1, tab2 |-> tab2, tab3 |-> report]]

\* Tab 2: Register Attendee.
RegisterAttendee(s, ui, tab1, added) ==
    LET r2 == get_events(s)
        evs == r2.value
        event_options == EventOptions(<<>>, evs)
        labels == Keys(event_options)
        submit_attendee == Truthy(evs) /\ ui.form = "attendee_form"
        registers == submit_attendee /\ Truthy(ui.attendee_name)
        attendeeArgs == <<Get(event_options, labels[ui.selected_event]),
                          ui.attendee_name, ui.gender, ui.province>>
        r3 == IF registers
              THEN add_attendee(r2.s, attendeeArgs[1], attendeeArgs[2],
                                attendeeArgs[3], attendeeArgs[4])
              ELSE Return(r2.s, "None")
        tab2 == IF ~Truthy(evs) THEN "Please add an event first."
                ELSE IF ~submit_attendee THEN "form"
                ELSE IF registers THEN "Attendee registered successfully."
                ELSE "Please provide the attendee's name."
    IN  IF r2.raised THEN Abort(r2, added)
        ELSE IF r3.raised THEN Abort(r3, added)
        ELSE ViewReports(r3.s, tab1, tab2,
                         IF registers THEN Append(added, <<"add_attendee", attendeeArgs>>)
                         ELSE added)

\* Tab 1: Add Event.
AddNewEvent(s, ui) ==
    LET submitted == ui.form = "event_form"
        adds == submitted /\ Truthy(ui.title)
        eventArgs == <<ui.title, isoformat(ui.date_value), ui.location, ui.topic>>
        r1 == IF adds
              THEN add_event(s, eventArgs[1], eventArgs[2], eventArgs[3], eventArgs[4])
              ELSE Return(s, "None")
        tab1 == IF ~submitted THEN "form"
                ELSE IF adds THEN "Event added successfully."
                ELSE "Please provide an event title."
    IN  IF r1.raised THEN Abort(r1, <<>>)
        ELSE RegisterAttendee(r1.s, ui, tab1,
                              IF adds THEN << <<"add_event", eventArgs, r1.s.eventsSeq>> >>
                              ELSE <<>>)

\* ui: the submitted form; renameOk: as for init_db.
main(s0, ui, renameOk) == AddNewEvent(init_db(s0, renameOk).s, ui)

\* The attendee form offers the events the page shows: one label per option.
CanSubmit(ui) ==
    ui.form = "attendee_form" =>
        ui.selected_event \in 1..Len(EventOptions(<<>>, events))

CallsOf(added, op) == SelectSeq(added, LAMBDA c : c[1] = op)

Main ==
    \E ui \in {NoForm} \cup EventForms \cup AttendeeForms, renameOk \in RenameOutcomes :
        /\ CanSubmit(ui)
        /\ ui.form = "event_form" => Len(events) < MaxEvents
        /\ ui.form = "attendee_form" => Len(attendees) < MaxAttendees
        /\ \E r \in {main(Store, ui, renameOk)} :
            LET eventsAdded == CallsOf(r.added, "add_event")
                attendeesAdded == CallsOf(r.added, "add_attendee")
            IN
            /\ Install(r, "main")
            /\ eventCalls' = eventCalls \o [i \in 1..Len(eventsAdded) |-> eventsAdded[i][2]]
            /\ issuedIds' = issuedIds \o [i \in 1..Len(eventsAdded) |-> eventsAdded[i][3]]
            /\ attendeeCalls' =
                   attendeeCalls \o [i \in 1..Len(attendeesAdded) |-> attendeesAdded[i][2]]
            /\ UNCHANGED records

NextMain == Main

SpecMain == Init /\ [][NextMain]_vars

----------------------------------------------------------------------------
\* Properties of the store (Spec)

Occurrences(seq, x) == Cardinality({i \in 1..Len(seq) : seq[i] = x})

\* The arguments an events row was added with.
EventArgs(row) == <<row.title, row.event_date, row.location, row.topic>>

\* C1: get_events returns exactly one row per add_event call that returned,
\* carrying that call's title, event_date, location and topic (none lost,
\* duplicated or altered), and every row's id differs from every other row's
\* and was given to no earlier event.
C1_EventsRoundTrip ==
    (ret.op = "get_events" /\ ~ret.raised) =>
        LET rows == ret.value
            got == [i \in 1..Len(rows) |-> EventArgs(rows[i])]
        IN  /\ Len(rows) = Len(eventCalls)
            /\ \A c \in Range(eventCalls) \cup Range(got) :
                   Occurrences(got, c) = Occurrences(eventCalls, c)
            /\ \A i, j \in 1..Len(rows) : i # j => rows[i].id # rows[j].id
            /\ \A i \in 1..Len(rows) : Occurrences(issuedIds, rows[i].id) = 1

\* get_events returned after two add_event calls.
C1_Witness ==
    /\ ret.op = "get_events"
    /\ ~ret.raised
    /\ Len(ret.value) >= 2
    /\ Len(eventCalls) >= 2

\* The pairs (add_attendee call, stored event) the join's ON clause matches.
Matches == {m \in (1..Len(attendeeCalls)) \X (1..Len(events)) :
                attendeeCalls[m[1]][1] = events[m[2]].id}

\* The record the join owes a matched pair: the event's title and date, the
\* call's gender and province.
Owed(m) ==
    [event_title |-> events[m[2]].title, event_date |-> events[m[2]].event_date,
     gender |-> attendeeCalls[m[1]][3], province |-> attendeeCalls[m[1]][4]]

Fields(rec) ==
    [event_title |-> Get(rec, EVENT_TITLE), event_date |-> Get(rec, EVENT_DATE),
     gender |-> Get(rec, GENDER), province |-> Get(rec, PROVINCE)]

\* C2: get_attendance_data is the inner join of attendees to events on the
\* event id: every add_attendee call whose event_id is a stored event's id has
\* a record with that event's title and date and the call's gender and
\* province, nothing else is in the result, and an event with no attendee
\* contributes no record.
C2_InnerJoin ==
    (ret.op = "get_attendance_data" /\ ~ret.raised) =>
        LET recs == ret.value
        IN  /\ \A m \in Matches : \E i \in 1..Len(recs) : Fields(recs[i]) = Owed(m)
            /\ \A i \in 1..Len(recs) :
                   Cardinality({j \in 1..Len(recs) : Fields(recs[j]) = Fields(recs[i])})
                       = Cardinality({m \in Matches : Owed(m) = Fields(recs[i])})
            /\ Len(recs) = Cardinality(Matches)
            /\ \A i \in 1..Len(recs) : Keys(recs[i]) = <<EVENT_TITLE, EVENT_DATE, GENDER, PROVINCE>>

\* The join returned a record while a stored event has no attendee.
C2_Witness ==
    /\ ret.op = "get_attendance_data"
    /\ ~ret.raised
    /\ Len(ret.value) >= 1
    /\ \E j \in 1..Len(events) : \A m \in Matches : m[2] # j

\* The data rows of a CSV text: its rows after the header.
DataRows(text) == IF text = <<>> THEN 0 ELSE Len(ParseCsv(text)) - 1

\* C3: the CSV export of get_attendance_data is a header row and one data row
\* per attendee: as many data rows as attendee rows are stored.
C3_OneRowPerAttendee ==
    (ret.op = "get_attendance_data" /\ ~ret.raised) =>
        LET text == export_csv(ret.value)
        IN  /\ DataRows(text) = Len(attendees)
            /\ Len(attendees) > 0 =>
                   ParseCsv(text)[1] = <<EVENT_TITLE, EVENT_DATE, GENDER, PROVINCE>>

\* C4: init_db called on an initialized store, at any point, raises nothing,
\* leaves the events table and the attendees table in place, and leaves every
\* stored row as it was.
C4_InitDbIdempotent ==
    [][(cols # <<>> /\ attTable /\ ret'.op = "init_db") =>
           /\ ~ret'.raised
           /\ cols' # <<>>
           /\ attTable'
           /\ events' = events
           /\ attendees' = attendees
           /\ eventsSeq' = eventsSeq
           /\ attendeesSeq' = attendeesSeq]_vars

\* init_db returned on a store that holds events and attendees.
C4_Witness ==
    /\ ret.op = "init_db"
    /\ Len(events) >= 1
    /\ Len(attendees) >= 1

\* C5: init_db attempts the rename exactly when the events table it finds has
\* a 'date' column and no 'event_date' column; a failed rename is swallowed:
\* init_db raises nothing, closes its connection and leaves the columns as it
\* found them.
C5_RenameFailureSwallowed ==
    [][ret'.op = "init_db" =>
           LET found == IF cols = <<>> THEN EventsColumns ELSE cols
               legacy == DATE \in Range(found) /\ EVENT_DATE \notin Range(found)
           IN  /\ ~ret'.raised
               /\ openConns' = openConns
               /\ legacy <=> ret'.value \in {"renamed", "rename_failed"}
               /\ ~legacy <=> ret'.value = "no_rename"
               /\ ret'.value \in {"rename_failed", "no_rename"} => cols' = found]_vars

\* init_db returned after a rename that failed.
C5_Witness ==
    /\ ret.op = "init_db"
    /\ ret.value = "rename_failed"
    /\ cols = LegacyColumns

\* C9: no connection opened by a finished operation is still open, whether
\* the operation returned or raised.
C9_ConnectionsReleased == openConns = 0

----------------------------------------------------------------------------
\* The report helpers applied to any list of attendance records.

ReportTitles == {<<"X">>, <<"Y", ",">>}
ReportDates == {isoformat([year |-> 2024, month |-> 3, day |-> 1])}
ReportProvinces == {<<>>, <<"\"", "K", "\n">>}

ReportRecords ==
    {AttendanceRecord([title |-> t, event_date |-> d], [gender |-> g, province |-> p]) :
        t \in ReportTitles, d \in ReportDates, g \in Genders, p \in ReportProvinces}

RECURSIVE Lists(_, _)
\* The lists of at most n elements of S.
Lists(S, n) ==
    IF n = 0 THEN {<<>>}
    ELSE LET shorter == Lists(S, n - 1)
         IN  shorter \cup {Append(l, x) : l \in shorter, x \in S}

\* The three breakdowns of main: the key counted and the table's first header.
Breakdowns == {<<EVENT_TITLE, EVENT>>, <<GENDER, GENDER_HEADER>>, <<PROVINCE, PROVINCE_HEADER>>}

InitReport ==
    /\ dataDir = FALSE
    /\ cols = <<>>
    /\ attTable = FALSE
    /\ events = <<>>
    /\ eventsSeq = 0
    /\ attendees = <<>>
    /\ attendeesSeq = 0
    /\ openConns = 0
    /\ ret = [op |-> "start", raised |-> FALSE, value |-> "None"]
    /\ eventCalls = <<>>
    /\ attendeeCalls = <<>>
    /\ issuedIds = <<>>
    /\ records \in Lists(ReportRecords, MaxRows)

Returned(op, args, value) ==
    /\ ret' = [op |-> op, raised |-> FALSE, args |-> args, value |-> value]
    /\ UNCHANGED <<dataDir, cols, attTable, events, eventsSeq, attendees, attendeesSeq,
                   openConns, eventCalls, attendeeCalls, issuedIds, records>>

CountBy ==
    \E b \in Breakdowns :
        Returned("Counter", <<b[1]>>, Counter(records, b[1]))

MarkdownTable ==
    \E b \in Breakdowns :
        LET counts == Counter(records, b[1])
        IN  Returned("markdown_table", <<counts, b[2], COUNT>>,
                     markdown_table(counts, b[2], COUNT))

ExportCsv == Returned("export_csv", <<records>>, export_csv(records))

NextReport == CountBy \/ MarkdownTable \/ ExportCsv

SpecReport == InitReport /\ [][NextReport]_vars

----------------------------------------------------------------------------
\* Properties of the report helpers (SpecReport)

\* The value counted for each record.
KeysOf(items, key) == [i \in 1..Len(items) |-> Get(items[i], key)]

FirstIndex(seq, x) == CHOOSE i \in 1..Len(seq) : seq[i] = x /\ \A j \in 1..(i - 1) : seq[j] # x

\* C6: the count-by aggregation maps each distinct key to the number of records
\* having it, holds no other key (an empty input gives an empty mapping), and
\* iterates its keys in the order of their first appearance in the input,
\* whatever the counts.
C6_CountByFirstSeen ==
    ret.op = "Counter" =>
        LET ks == KeysOf(records, ret.args[1])
            counts == ret.value
        IN  /\ {counts[i][1] : i \in 1..Len(counts)} = Range(ks)
            /\ \A i \in 1..Len(counts) : counts[i][2] = Occurrences(ks, counts[i][1])
            /\ \A i, j \in 1..Len(counts) :
                   i < j => FirstIndex(ks, counts[i][1]) < FirstIndex(ks, counts[j][1])
            /\ (records = <<>> => counts = <<>>)

\* A key seen first and counted once comes before a key seen later and counted twice.
C6_Witness ==
    /\ ret.op = "Counter"
    /\ Len(ret.value) >= 2
    /\ ret.value[1][2] < ret.value[2][2]

\* C7: export_csv gives the empty string for an empty list; for a non-empty
\* list, a header row of the first record's keys in that record's order, then
\* one row per record in input order: len(records) + 1 rows.
C7_CsvHeaderAndRows ==
    ret.op = "export_csv" =>
        IF records = <<>> THEN ret.value = <<>>
        ELSE LET rows == ParseCsv(ret.value)
             IN  /\ Len(rows) = Len(records) + 1
                 /\ rows[1] = Keys(records[1])
                 /\ \A i \in 1..Len(records) : rows[i + 1] = Values(records[i])

\* Two records exported, one of them with a field that holds a quote and a line break.
C7_Witness ==
    /\ ret.op = "export_csv"
    /\ Len(records) >= 2
    /\ \E i \in 1..Len(records) : Get(records[i], PROVINCE) = <<"\"", "K", "\n">>

RECURSIVE C8_RowsText(_)
\* '\n|key|count|' for each entry, in the mapping's order.
C8_RowsText(counts) ==
    IF counts = <<>> THEN <<>>
    ELSE <<"\n", "|">> \o counts[1][1] \o <<"|">> \o IntStr(counts[1][2]) \o <<"|">>
             \o C8_RowsText(Tail(counts))

\* C8: markdown_table(counts, header1, header2) is the row '|header1|header2|',
\* the row '|---|---|' and one row '|key|count|' per entry of counts in the
\* mapping's order, joined by newlines, with no newline at the end; for an
\* empty mapping, the first two rows alone.
C8_MarkdownRows ==
    ret.op = "markdown_table" =>
        LET counts == ret.args[1]
            header1 == ret.args[2]
            header2 == ret.args[3]
        IN  /\ ret.value = <<"|">> \o header1 \o <<"|">> \o header2
                               \o <<"|", "\n", "|", "-", "-", "-", "|", "-", "-", "-", "|">>
                               \o C8_RowsText(counts)
            /\ ret.value[Len(ret.value)] # "\n"

\* A table of two entries.
C8_Witness ==
    /\ ret.op = "markdown_table"
    /\ Len(ret.args[1]) >= 2

----------------------------------------------------------------------------
\* Properties of the script (SpecMain)

\* C10: driven through the forms of main alone, every stored attendee's
\* event_id is the id of a stored event, and every stored event title and
\* attendee name is non-empty: add_event is called only with a non-empty
\* title, add_attendee only with a non-empty name and the id of a stored event.
C10_FormsKeepReferences ==
    /\ \A k \in 1..Len(attendees) : \E j \in 1..Len(events) :
           attendees[k].event_id = events[j].id
    /\ \A j \in 1..Len(events) : events[j].title # <<>>
    /\ \A k \in 1..Len(attendees) : attendees[k].name # <<>>
    /\ \A c \in Range(eventCalls) : c[1] # <<>>
    /\ \A c \in Range(attendeeCalls) : c[2] # <<>> /\ c[1] \in Range(issuedIds)

\* A run of main registered an attendee for the second of two stored events.
C10_Witness ==
    /\ ret.op = "main"
    /\ ~ret.raised
    /\ Len(events) >= 2
    /\ \E k \in 1..Len(attendees) : attendees[k].event_id = events[2].id

====
